---- MODULE Spec2Model ----
(***************************************************************************)
(* A model of colabfit_mcp.py: the two MCP tools dataset_query and         *)
(* download_dataset, the remote service they talk to and the files under   *)
(* the download directory.                                                 *)
(*                                                                         *)
(* Python values are represented as follows.  None is the token "None"     *)
(* (the text an f-string renders it as); a str is a token; a text built by *)
(* an f-string is the sequence of its parts; a list is a sequence; a dict  *)
(* is a function from its keys; an exception is the name of its class.     *)
(***************************************************************************)
EXTENDS Integers, Sequences, FiniteSets, TLC

VARIABLES
    qpc,            \* dataset_query: "idle", "returned" or "raised"
    qargs,          \* the arguments of the last dataset_query call
    qremote,        \* what the remote endpoint did on that call
    qsent,          \* the JSON body that call posted
    qresult,        \* the value that call returned
    pc,             \* download_dataset, per invocation: its position
    dataset_id,     \* its argument dataset_id
    format,         \* its argument format
    filename,       \* its local filename
    saved_file,     \* its local saved_file
    url,            \* its local url
    requested,      \* (history) the URLs it has issued a GET to
    response,       \* the response r of its GET
    offset,         \* the position of its file object f, in chunks
    opened,         \* (history) the paths it has opened for writing
    before,         \* (history) the files as they were when it was invoked
    result,         \* the value it returned
    files           \* the files of the download directory

qvars == <<qpc, qargs, qremote, qsent, qresult>>
dvars == <<pc, dataset_id, format, filename, saved_file, url, requested,
           response, offset, opened, before, result, files>>
vars == <<qpc, qargs, qremote, qsent, qresult,
          pc, dataset_id, format, filename, saved_file, url, requested,
          response, offset, opened, before, result, files>>

None == "None"

Truthy(v) == v # None /\ v # ""

-----------------------------------------------------------------------------
(* Bounds of the model.                                                    *)

MaxN == 5           \* longest remote result list
MaxPage == 3        \* largest page asked for
MaxPageSize == 3    \* largest page_size asked for
MaxChunks == 2      \* longest response body of a download, in chunks

-----------------------------------------------------------------------------
(* dataset_query                                                           *)

PaginationParams == {"page", "page_size"}

FilterParams ==
    {"name", "authors", "description", "elements", "exact_elements", "doi",
     "min_co", "max_co", "min_elements", "max_elements", "min_atoms",
     "max_atoms", "property_types", "license", "equilibrium",
     "given_sort_by", "given_sort_direction", "software",
     "methods_text_filter"}

Params == FilterParams \cup PaginationParams

Defaults ==
    [k \in Params |->
        CASE k = "exact_elements" -> FALSE
          [] k = "given_sort_direction" -> "descending"
          [] k = "page" -> 1
          [] k = "page_size" -> 10
          [] OTHER -> None]

\* The filters the host calls dataset_query with: none, or some.
QueryFilters ==
    { Defaults,
      [Defaults EXCEPT !["name"] = "Si", !["exact_elements"] = TRUE,
                       !["given_sort_direction"] = "ascending"] }

\* The argument combinations the host calls dataset_query with.
QueryArgs ==
    { [f EXCEPT !["page"] = p, !["page_size"] = s] :
        f \in QueryFilters, p \in (-1 .. MaxPage), s \in (-1 .. MaxPageSize) }

\* locals() on entry: the dict of the function's parameters.
Locals(args) == [k \in Params |-> args[k]]

\* dict.pop(key)
Pop(d, key) == [k \in DOMAIN d \ {key} |-> d[k]]

args_dict_keeps_page_size(args) == Pop(Locals(args), "page")

args_dict(args) == Pop(Pop(Locals(args), "page"), "page_size")

start(page, page_size) == (page - 1) * page_size

end(page, page_size) == start(page, page_size) + page_size

\* What requests.post and response.json() can come to: the request fails, the
\* response is not JSON, or it decodes to a JSON array (of records, numbered
\* here; a JSON string is sliced the same way), a JSON object (with n keys)
\* or a scalar (a number, null, a boolean).
JsonLists == { [kind |-> "list", items |-> [i \in 1 .. n |-> i]] : n \in 0 .. MaxN }

JsonOthers ==
    { [kind |-> "object", items |-> [i \in 1 .. n |-> i]] : n \in {0, 2} }
      \cup { [kind |-> "scalar", items |-> << >>] }

RemoteFailures ==
    { [kind |-> "network_error", items |-> << >>],
      [kind |-> "undecodable", items |-> << >>] }

QueryRemotes == JsonLists \cup JsonOthers \cup RemoteFailures

\* Python's a // b
FloorDiv(a, b) == a \div b

Clamp(i, n) == IF i < 0 THEN (IF i + n < 0 THEN 0 ELSE i + n)
               ELSE IF i > n THEN n ELSE i

\* Python's s[a:b] on a list
Slice(s, a, b) ==
    LET lo == Clamp(a, Len(s))
        hi == Clamp(b, Len(s))
    IN  IF lo < hi THEN SubSeq(s, lo + 1, hi) ELSE << >>

total_pages_floor(n, page_size) == FloorDiv(n, page_size)

total_pages(n, page_size) == FloorDiv(n + page_size - 1, page_size)

\* The exception the try block of dataset_query ends with, or None when it
\* runs to its end, in the order the block evaluates: the request, the
\* decoding, len(response_json), the division, the slice (a dict cannot be
\* sliced: a TypeError, or a KeyError from Python 3.12 on).
QueryException(remote, page, page_size) ==
    CASE remote.kind = "network_error" -> "ConnectionError"
      [] remote.kind = "undecodable" -> "JSONDecodeError"
      [] remote.kind = "scalar" -> "TypeError"
      [] page_size = 0 -> "ZeroDivisionError"
      [] remote.kind = "object" -> "TypeError"
      [] OTHER -> None

Exceptions ==
    {"ConnectionError", "JSONDecodeError", "TypeError", "ZeroDivisionError",
     "HTTPError", "OSError"}

query_except_requests_only(e) == e \in {"ConnectionError", "JSONDecodeError"}

\* except Exception as e, of dataset_query: whether it catches e
query_except(e) == e \in Exceptions

QuerySuccess(remote, page, page_size) ==
    LET response_json == remote.items
        results == Slice(response_json, start(page, page_size), end(page, page_size))
    IN  [kind |-> "dict", Success |-> TRUE, Results |-> results,
         ResultLength |-> Len(results), Page |-> page, PageSize |-> page_size,
         TotalPages |-> total_pages(Len(response_json), page_size)]

QueryFailure(e) == [kind |-> "dict", Success |-> FALSE, Results |-> e]

NoResult == [kind |-> "None"]

dataset_query(args, remote) ==
    LET page == args["page"]
        page_size == args["page_size"]
        e == QueryException(remote, page, page_size)
    IN  /\ qargs' = args
        /\ qremote' = remote
        /\ qsent' = args_dict(args)
        /\ IF e = None
           THEN /\ qpc' = "returned"
                /\ qresult' = QuerySuccess(remote, page, page_size)
           ELSE IF query_except(e)
           THEN /\ qpc' = "returned"
                /\ qresult' = QueryFailure(e)
           ELSE /\ qpc' = "raised"
                /\ qresult' = NoResult
        /\ UNCHANGED dvars

QueryInit ==
    /\ qpc = "idle"
    /\ qargs = Defaults
    /\ qremote = [kind |-> "none", items |-> << >>]
    /\ qsent = [k \in {} |-> None]
    /\ qresult = NoResult

QueryNext == \E args \in QueryArgs, remote \in QueryRemotes : dataset_query(args, remote)

-----------------------------------------------------------------------------
(* download_dataset                                                        *)

Procs == {1, 2}

DatasetIds == {None, "", "DS_a"}

Formats == {"parquet", "original", "xyz"}

\* The text of an f-string: its parts, the empty ones dropped.
Text(parts) == SelectSeq(parts, LAMBDA t : t # "")

\* str(Path.home() / "Downloads")
download_dir == "~/Downloads"

Filename_with_extension(id, fmt) ==
    IF fmt = "parquet" THEN Text(<<id, ".tar.gz">>) ELSE Text(<<id, ".tar.xz">>)

Filename(id, fmt) ==
    IF fmt = "parquet" THEN Text(<<id, ".tar.gz">>) ELSE Text(<<id>>)

SavedFile_no_extension(id, fmt) == Text(<<download_dir, "/">> \o Filename(id, fmt))

SavedFile(id, fmt) ==
    IF fmt = "parquet"
    THEN Text(<<download_dir, "/">> \o Filename(id, fmt))
    ELSE Text(<<download_dir, "/">> \o Filename(id, fmt) \o <<".tar.xz">>)

Url(fmt, fname) ==
    Text(<<"https://materials.colabfit.org/mcp/dataset-download/", fmt, "/">> \o fname)

Paths == { SavedFile(id, fmt) : id \in DatasetIds, fmt \in Formats }

\* A file: whether it exists and its content, a sequence of chunks.
Absent == [exists |-> FALSE, data |-> << >>]

NoFiles == [f \in Paths |-> Absent]

\* The chunk a seek past the end leaves behind: zeros.
Hole == <<"zero", 0>>

\* The body the remote serves: version v of the archive, n chunks long.
Body(v, n) == [i \in 1 .. n |-> <<v, i>>]

Bodies == { Body(v, n) : v \in {"A", "B"}, n \in 0 .. MaxChunks }

NoResponse == [kind |-> "none", ok |-> FALSE, body |-> << >>]

\* What requests.get can come to: the request fails, or a response arrives
\* with a status raise_for_status accepts (ok) or signals.
GetOutcomes ==
    { [kind |-> "network_error", ok |-> FALSE, body |-> << >>],
      [kind |-> "response", ok |-> FALSE, body |-> Body("error page", 1)] }
      \cup { [kind |-> "response", ok |-> TRUE, body |-> b] : b \in Bodies }

download_except_requests_only(e) == e \in {"ConnectionError", "HTTPError"}

\* except Exception as e, of download_dataset: whether it catches e
download_except(e) == e \in Exceptions

DownloadSuccess(path) == [kind |-> "dict", Success |-> TRUE, DownloadedFile |-> path]

DownloadFailure(e) == [kind |-> "dict", Success |-> FALSE, Error |-> e]

\* An exception e inside the try block of invocation p.
Throw(p, e) ==
    IF download_except(e)
    THEN /\ pc' = [pc EXCEPT ![p] = "returned"]
         /\ result' = [result EXCEPT ![p] = DownloadFailure(e)]
    ELSE /\ pc' = [pc EXCEPT ![p] = "raised"]
         /\ result' = [result EXCEPT ![p] = NoResult]

\* if dataset_id:
Guard_is_not_None(id) == id # None

Guard(id) == Truthy(id)

\* The call: lines 120-127 and, past the guard, line 129.
download_dataset(p, id, fmt) ==
    /\ pc[p] = "idle"
    /\ dataset_id' = [dataset_id EXCEPT ![p] = id]
    /\ format' = [format EXCEPT ![p] = fmt]
    /\ filename' = [filename EXCEPT ![p] = Filename(id, fmt)]
    /\ saved_file' = [saved_file EXCEPT ![p] = SavedFile(id, fmt)]
    /\ before' = [before EXCEPT ![p] = files]
    /\ IF Guard(id)
       THEN /\ url' = [url EXCEPT ![p] = Url(fmt, Filename(id, fmt))]
            /\ pc' = [pc EXCEPT ![p] = "get"]
       ELSE /\ url' = url
            /\ pc' = [pc EXCEPT ![p] = "returned"]
    /\ UNCHANGED <<requested, response, offset, opened, result, files>>
    /\ UNCHANGED qvars

\* requests.get(url, stream=True, ...)
Get(p, r) ==
    /\ pc[p] = "get"
    /\ requested' = [requested EXCEPT ![p] = @ \cup {url[p]}]
    /\ IF r.kind = "network_error"
       THEN /\ Throw(p, "ConnectionError")
            /\ UNCHANGED response
       ELSE /\ response' = [response EXCEPT ![p] = r]
            /\ pc' = [pc EXCEPT ![p] = "raise_for_status"]
            /\ UNCHANGED result
    /\ UNCHANGED <<dataset_id, format, filename, saved_file, url, offset,
                   opened, before, files>>
    /\ UNCHANGED qvars

raise_for_status_missing(r) == FALSE

\* r.raise_for_status(): whether it raises
raise_for_status(r) == ~r.ok

RaiseForStatus(p) ==
    /\ pc[p] = "raise_for_status"
    /\ IF raise_for_status(response[p])
       THEN Throw(p, "HTTPError")
       ELSE /\ pc' = [pc EXCEPT ![p] = "open"]
            /\ UNCHANGED result
    /\ UNCHANGED <<dataset_id, format, filename, saved_file, url, requested,
                   response, offset, opened, before, files>>
    /\ UNCHANGED qvars

\* What open(path, mode) leaves of the file.
Truncate_keeps_content(file) == [exists |-> TRUE, data |-> file.data]

Truncate(file) == [exists |-> TRUE, data |-> << >>]

\* open(saved_file, 'wb'): the file is created or truncated, or open fails
\* (no such directory, no permission) and leaves it alone.
Open(p, ok) ==
    /\ pc[p] = "open"
    /\ IF ok
       THEN /\ files' = [files EXCEPT ![saved_file[p]] = Truncate(@)]
            /\ opened' = [opened EXCEPT ![p] = @ \cup {saved_file[p]}]
            /\ offset' = [offset EXCEPT ![p] = 0]
            /\ pc' = [pc EXCEPT ![p] = "iter_content"]
            /\ UNCHANGED result
       ELSE /\ Throw(p, "OSError")
            /\ UNCHANGED <<files, opened, offset>>
    /\ UNCHANGED <<dataset_id, format, filename, saved_file, url, requested,
                   response, before>>
    /\ UNCHANGED qvars

WriteAt_end_of_file(data, off, chunk) == Append(data, chunk)

\* f.write(chunk) at the position off of the file object.
WriteAt(data, off, chunk) ==
    IF off < Len(data)
    THEN [data EXCEPT ![off + 1] = chunk]
    ELSE data \o [i \in 1 .. (off - Len(data)) |-> Hole] \o <<chunk>>

\* One round of the loop over r.iter_content: the next chunk arrives and is
\* written, or the stream breaks, or the write fails.
Write(p, outcome) ==
    /\ pc[p] = "iter_content"
    /\ offset[p] < Len(response[p].body)
    /\ CASE outcome = "chunk" ->
              /\ files' = [files EXCEPT ![saved_file[p]].data =
                             WriteAt(@, offset[p], response[p].body[offset[p] + 1])]
              /\ offset' = [offset EXCEPT ![p] = @ + 1]
              /\ UNCHANGED <<pc, result>>
         [] outcome = "stream_error" ->
              /\ Throw(p, "ConnectionError")
              /\ UNCHANGED <<files, offset>>
         [] outcome = "write_error" ->
              /\ Throw(p, "OSError")
              /\ UNCHANGED <<files, offset>>
    /\ UNCHANGED <<dataset_id, format, filename, saved_file, url, requested,
                   response, opened, before>>
    /\ UNCHANGED qvars

\* The loop ends, both with blocks close, line 135 returns.
Return(p) ==
    /\ pc[p] = "iter_content"
    /\ offset[p] = Len(response[p].body)
    /\ pc' = [pc EXCEPT ![p] = "returned"]
    /\ result' = [result EXCEPT ![p] = DownloadSuccess(saved_file[p])]
    /\ UNCHANGED <<dataset_id, format, filename, saved_file, url, requested,
                   response, offset, opened, before, files>>
    /\ UNCHANGED qvars

\* The host takes the result; the frame of the invocation is gone.
Collect(p) ==
    /\ pc[p] = "returned"
    /\ pc' = [pc EXCEPT ![p] = "idle"]
    /\ dataset_id' = [dataset_id EXCEPT ![p] = None]
    /\ format' = [format EXCEPT ![p] = "parquet"]
    /\ filename' = [filename EXCEPT ![p] = << >>]
    /\ saved_file' = [saved_file EXCEPT ![p] = << >>]
    /\ url' = [url EXCEPT ![p] = << >>]
    /\ requested' = [requested EXCEPT ![p] = {}]
    /\ response' = [response EXCEPT ![p] = NoResponse]
    /\ offset' = [offset EXCEPT ![p] = 0]
    /\ opened' = [opened EXCEPT ![p] = {}]
    /\ before' = [before EXCEPT ![p] = NoFiles]
    /\ result' = [result EXCEPT ![p] = NoResult]
    /\ UNCHANGED files
    /\ UNCHANGED qvars

DownloadInit ==
    /\ pc = [p \in Procs |-> "idle"]
    /\ dataset_id = [p \in Procs |-> None]
    /\ format = [p \in Procs |-> "parquet"]
    /\ filename = [p \in Procs |-> << >>]
    /\ saved_file = [p \in Procs |-> << >>]
    /\ url = [p \in Procs |-> << >>]
    /\ requested = [p \in Procs |-> {}]
    /\ response = [p \in Procs |-> NoResponse]
    /\ offset = [p \in Procs |-> 0]
    /\ opened = [p \in Procs |-> {}]
    /\ before = [p \in Procs |-> NoFiles]
    /\ result = [p \in Procs |-> NoResult]
    /\ files = NoFiles

Step(p) ==
    \/ \E id \in DatasetIds, fmt \in Formats : download_dataset(p, id, fmt)
    \/ \E r \in GetOutcomes : Get(p, r)
    \/ RaiseForStatus(p)
    \/ \E ok \in BOOLEAN : Open(p, ok)
    \/ \E outcome \in {"chunk", "stream_error", "write_error"} : Write(p, outcome)
    \/ Return(p)

-----------------------------------------------------------------------------
(* Specifications.  The two tools share no state, so each is checked under *)
(* a host that calls only it.                                              *)

Init == QueryInit /\ DownloadInit

\* A host that calls dataset_query, one call after the other.
SpecQuery == Init /\ [][QueryNext]_vars

\* A host that calls download_dataset, one call after the other.
DownloadNext == Step(1) \/ Collect(1)

SpecDownload == Init /\ [][DownloadNext]_vars

\* A host that runs two invocations of download_dataset at once.
ConcNext == \E p \in Procs : Step(p)

SpecConc == Init /\ [][ConcNext]_vars

\* Any host.
Next == QueryNext \/ (\E p \in Procs : Step(p) \/ Collect(p))

Spec == Init /\ [][Next]_vars

-----------------------------------------------------------------------------
(* Properties of dataset_query, checked under SpecQuery.                   *)

Min(a, b) == IF a < b THEN a ELSE b

\* The least k with k * d >= n, for n >= 0 and d >= 1.
Ceil(n, d) == CHOOSE k \in 0 .. n : k * d >= n /\ (k - 1) * d < n

\* Items first + 1 .. first + count of s, as many as s has.
Page(s, first, size) ==
    [i \in 1 .. (IF first >= Len(s) THEN 0 ELSE Min(size, Len(s) - first)) |-> s[first + i]]

\* C1: when the remote answers with a list of N records and page >= 1,
\* page_size >= 1, the call returns Success = true, Total Pages =
\* ceil(N / page_size) of the whole list, Results = the records
\* (page-1)*page_size+1 .. page*page_size that exist, Result Length =
\* len(Results); a page past the last one is empty and still a success.
C1_Pagination ==
    (qpc # "idle" /\ qremote.kind = "list"
        /\ qargs["page"] >= 1 /\ qargs["page_size"] >= 1)
    => LET N == Len(qremote.items)
           page == qargs["page"]
           page_size == qargs["page_size"]
       IN  /\ qpc = "returned"
           /\ qresult.kind = "dict"
           /\ qresult.Success = TRUE
           /\ qresult.TotalPages = Ceil(N, page_size)
           /\ qresult.Results = Page(qremote.items, (page - 1) * page_size, page_size)
           /\ qresult.ResultLength = Len(qresult.Results)
           /\ qresult.Page = page
           /\ qresult.PageSize = page_size
           /\ (page > qresult.TotalPages
                 => qresult.Results = << >> /\ qresult.ResultLength = 0)

\* A last page that the list's end clips: 5 records, page 3 of size 2.
C1_Witness ==
    /\ qpc = "returned"
    /\ qremote.kind = "list"
    /\ Len(qremote.items) = 5
    /\ qargs["page"] = 3
    /\ qargs["page_size"] = 2
    /\ qresult.Success = TRUE
    /\ qresult.Results = <<5>>
    /\ qresult.TotalPages = 3

\* Whether the call met one of the failures C2 names: the request failed,
\* the response did not decode, it decoded to something that is no sequence,
\* or the page count could not be computed.
QueryFailed ==
    \/ qremote.kind \in {"network_error", "undecodable", "scalar", "object"}
    \/ qargs["page_size"] = 0

\* C2: dataset_query never raises: every call ends by returning a result
\* object, and after any failure of the request, the decoding, the page
\* count or the slice that object is Success = false with the failure as
\* its Results.
C2_NeverRaises ==
    /\ qpc # "raised"
    /\ qpc = "returned"
         => /\ qresult.kind = "dict"
            /\ QueryFailed => /\ qresult.Success = FALSE
                              /\ qresult.Results \in Exceptions
                              /\ qresult.Results # ""
            /\ ~QueryFailed => qresult.Success = TRUE

\* A list arrived, and the page count failed on page_size = 0.
C2_Witness ==
    /\ qpc = "returned"
    /\ qremote.kind = "list"
    /\ Len(qremote.items) = 3
    /\ qargs["page_size"] = 0
    /\ qresult.Success = FALSE
    /\ qresult.Results = "ZeroDivisionError"

\* C8: every call posts exactly the 19 filter and sort fields with the
\* caller's values, never page or page_size; a call that differs from the
\* one before it only in page or page_size posts the same body.
C8_RequestBody ==
    [][ /\ DOMAIN qsent' = FilterParams
        /\ Cardinality(DOMAIN qsent') = 19
        /\ "page" \notin DOMAIN qsent'
        /\ "page_size" \notin DOMAIN qsent'
        /\ \A k \in FilterParams : qsent'[k] = qargs'[k]
        /\ (qpc # "idle" /\ \A k \in FilterParams : qargs'[k] = qargs[k])
              => qsent' = qsent ]_vars

\* A call with filters of the caller's and a page that is not the default.
C8_Witness ==
    /\ qpc = "returned"
    /\ qargs["name"] = "Si"
    /\ qargs["page"] = 2
    /\ qargs["page_size"] = 3
    /\ qsent["name"] = "Si"
    /\ qsent["exact_elements"] = TRUE
    /\ qsent["doi"] = None

-----------------------------------------------------------------------------
(* Properties of download_dataset, checked under SpecDownload (C6: under   *)
(* SpecConc).                                                              *)

Called(p) == pc[p] # "idle"

Returned(p) == pc[p] = "returned"

Succeeded(p) == Returned(p) /\ result[p].kind = "dict" /\ result[p].Success = TRUE

Failed(p) == Returned(p) /\ result[p].kind = "dict" /\ result[p].Success = FALSE

\* The invocation opened its destination and wrote every chunk of the body.
WholeBodyWritten(p) ==
    /\ opened[p] # {}
    /\ response[p].kind = "response"
    /\ offset[p] = Len(response[p].body)

\* The result C3 asks of a returned invocation.
StructuredResult(p) ==
    /\ result[p].kind = "dict"
    /\ IF WholeBodyWritten(p)
       THEN result[p] = [kind |-> "dict", Success |-> TRUE,
                         DownloadedFile |-> saved_file[p]]
       ELSE /\ result[p].Success = FALSE
            /\ DOMAIN result[p] = {"kind", "Success", "Error"}
            /\ result[p].Error \in Exceptions

\* C3 as stated: every invocation, whatever its dataset_id and format,
\* returns {Success: true, Downloaded File} when the whole body was written
\* and {Success: false, Error} otherwise; none raises or ends without one.
C3_AlwaysStructured ==
    \A p \in Procs :
        /\ pc[p] # "raised"
        /\ Returned(p) => StructuredResult(p)

\* C3 as amended: the same of every invocation with a non-empty dataset_id.
C3_StructuredWhenIdGiven ==
    \A p \in Procs :
        /\ pc[p] # "raised"
        /\ (Returned(p) /\ Truthy(dataset_id[p])) => StructuredResult(p)

\* A write to the file failed part-way and came back as a failure result.
C3_Witness ==
    \E p \in Procs :
        /\ Failed(p)
        /\ dataset_id[p] = "DS_a"
        /\ result[p].Error = "OSError"
        /\ opened[p] # {}
        /\ offset[p] = 1

\* C4: once the response has a status raise_for_status signals, the
\* invocation never opens its destination, every file stays as it was when
\* the invocation began, and the call returns Success = false with its Error.
C4_StatusBeforeWrite ==
    \A p \in Procs :
        (Called(p) /\ response[p].kind = "response" /\ ~response[p].ok)
        => /\ opened[p] = {}
           /\ files = before[p]
           /\ pc[p] \in {"raise_for_status", "returned"}
           /\ Returned(p) => /\ Failed(p)
                             /\ result[p].Error = "HTTPError"

\* An error status came back for a destination that already held a file.
C4_Witness ==
    \E p \in Procs :
        /\ Failed(p)
        /\ response[p].kind = "response"
        /\ ~response[p].ok
        /\ before[p][saved_file[p]].exists
        /\ before[p][saved_file[p]].data = Body("A", 2)
        /\ files[saved_file[p]].data = Body("A", 2)

\* The destination the naming convention gives.
Destination(id, fmt) ==
    Text(<<download_dir, "/", id, IF fmt = "parquet" THEN ".tar.gz" ELSE ".tar.xz">>)

Endpoint == "https://materials.colabfit.org/mcp/dataset-download/"

Prefix(body, n) == SubSeq(body, 1, n)

\* C9: from the open on, the destination holds the chunks of the body
\* received so far and nothing else, whatever it held before; at a success it
\* holds the whole body; at a failure after the open the call returns
\* Success = false and the chunks written stay.
C9_PrefixOfBody ==
    \A p \in Procs :
        opened[p] # {}
        => /\ files[saved_file[p]].exists
           /\ files[saved_file[p]].data = Prefix(response[p].body, offset[p])
           /\ Succeeded(p) => files[saved_file[p]].data = response[p].body
           /\ (Returned(p) /\ offset[p] < Len(response[p].body)) => Failed(p)

\* A stream that broke after the first of two chunks, over an older file.
C9_Witness ==
    \E p \in Procs :
        /\ Failed(p)
        /\ opened[p] # {}
        /\ response[p].body = Body("B", 2)
        /\ before[p][saved_file[p]].data = Body("A", 2)
        /\ files[saved_file[p]].data = <<<<"B", 1>>>>
        /\ result[p].Error = "ConnectionError"

\* C10: an invocation with an absent or empty dataset_id issues no request,
\* opens, creates and changes no file, and returns without a result.
C10_NoIdNoEffect ==
    \A p \in Procs :
        (Called(p) /\ ~Truthy(dataset_id[p]))
        => /\ Returned(p)
           /\ requested[p] = {}
           /\ opened[p] = {}
           /\ files = before[p]
           /\ result[p] = NoResult

\* An empty dataset_id, with a file of an earlier download in place.
C10_Witness ==
    \E p \in Procs :
        /\ Returned(p)
        /\ dataset_id[p] = ""
        /\ format[p] = "original"
        /\ result[p] = NoResult
        /\ files[<<"~/Downloads", "/", "DS_a", ".tar.xz">>].exists

\* Two invocations that both returned a success.
BothSucceeded(p, q) == p # q /\ Succeeded(p) /\ Succeeded(q)

\* C6 as stated: of two concurrent successes with one destination, the file
\* ends as the whole body of one of them; with two destinations, each file
\* ends as its own invocation's body.
C6_LastWriterWins ==
    \A p, q \in Procs :
        BothSucceeded(p, q)
        => IF saved_file[p] = saved_file[q]
           THEN files[saved_file[p]].data \in {response[p].body, response[q].body}
           ELSE files[saved_file[p]].data = response[p].body

\* Chunk i of a body, if it has one.
ChunksAt(body, i) == IF i <= Len(body) THEN {body[i]} ELSE {}

\* C6 as amended: of two concurrent successes with one destination, every
\* chunk of the file is the chunk one of the two bodies has at that place, or
\* the zeros of a gap, and the file is no longer than the longer body: it can
\* mix the two; with two destinations, each file ends as its own body.
C6_LastWriterWinsPerChunk ==
    \A p, q \in Procs :
        BothSucceeded(p, q)
        => IF saved_file[p] = saved_file[q]
           THEN LET data == files[saved_file[p]].data
                IN  /\ Len(data) <= Len(response[p].body) \/ Len(data) <= Len(response[q].body)
                    /\ \A i \in 1 .. Len(data) :
                          data[i] \in ChunksAt(response[p].body, i)
                                        \cup ChunksAt(response[q].body, i) \cup {Hole}
           ELSE files[saved_file[p]].data = response[p].body

\* Two successes, one destination, and a file that is neither body.
C6_Witness ==
    /\ BothSucceeded(1, 2)
    /\ saved_file[1] = saved_file[2]
    /\ response[1].body = Body("A", 2)
    /\ response[2].body = Body("B", 2)
    /\ files[saved_file[1]].data = << <<"B", 1>>, <<"A", 2>> >>

====
